---- MODULE Spec2Model ----
(***************************************************************************)
(* Privacy-aware RAG: retrieve candidates, authorize each one, compose an  *)
(* answer from the authorized subset.                                      *)
(*                                                                         *)
(* Two pipelines live in the repository and both are modelled:             *)
(*   - app/main.py  `ask`  (FastAPI handler: auth dependency, TinyRAG      *)
(*     search, per-candidate fga_check, HTTP 403 or AskResponse);          *)
(*   - app/rag.py   `PrivacyAwareRAG.answer_question` (DocumentStore       *)
(*     keyword search, per-candidate permission check, QueryResponse).     *)
(*                                                                         *)
(* Text is modelled as a sequence of words; a document id, a title and a   *)
(* body keep their identity so that "text of document d is in the answer"  *)
(* is a statement about the answer's blocks.                               *)
(***************************************************************************)
EXTENDS Integers, Sequences, FiniteSets, TLC

\* ---------------------------------------------------------------- bounds
MaxTopK == 3
MaxQueryLen == 2
MaxInflight == 2

\* ------------------------------------------------------------- constants
None == "None"
\* The object `Header(default=None)` that is the default value of the
\* `authorization` and `x_dev_user` parameters of get_auth_context.
HeaderDefault == "Header(default=None)"

\* ------------------------------------------------------------- documents
\* The sample collection, reduced to five documents (three public first,
\* then sensitive ones) and to a small vocabulary.  No word of the
\* vocabulary is a substring of another one, so "substring of the text" is
\* "contiguous run of words".
documents ==
  << [id |-> "doc_public_1",    title |-> <<"Holiday">>, text |-> <<"office", "holiday">>],
     [id |-> "doc_public_2",    title |-> <<"office">>,  text |-> <<"office", "x", "salary">>],
     [id |-> "doc_public_3",    title |-> <<"Holiday">>, text |-> <<"holiday", "budget">>],
     [id |-> "doc_sensitive_1", title |-> <<"Budget">>,  text |-> <<"budget", "salary">>],
     [id |-> "doc_sensitive_2", title |-> <<"Salary">>,  text |-> <<"salary", "salary", "budget">>] >>

DocIdx == 1..Len(documents)
DocIds == {documents[d].id : d \in DocIdx}

\* Words a question is made of.
QueryWords == {"Salary", "holiday", "x", "zzz"}

\* str.lower() on the vocabulary.
lower(w) ==
  CASE w = "Holiday" -> "holiday"
    [] w = "Salary"  -> "salary"
    [] w = "Budget"  -> "budget"
    [] OTHER         -> w

\* len(token) on the vocabulary: "x" is the one single-character word.
WordLen(w) == IF w = "x" THEN 1 ELSE 3

lower_text(s) == [k \in 1..Len(s) |-> lower(s[k])]

\* ------------------------------------------------------------- retrieval
Min(a, b) == IF a < b THEN a ELSE b

Count(w, s) == Cardinality({k \in 1..Len(s) : s[k] = w})

IsToken(w) == WordLen(w) > 1

\* Tokenizer: lower-case, keep the words longer than one character.
tokenize(text) == SelectSeq(lower_text(text), IsToken)

\* Index: term frequency per document over title + text, and document
\* frequency over the collection.
DocTokens(d) == tokenize(documents[d].title \o documents[d].text)

tf(d, t) == Count(t, DocTokens(d))

df(t) == Cardinality({d \in DocIdx : tf(d, t) > 0})

\* ln((N+1)/(df+1)) + 1 for N = 5 documents, in thousandths, indexed by df.
IdfMilli == <<2099, 1693, 1405, 1182, 1000>>

RECURSIVE SumScore(_, _)
SumScore(d, T) ==
  IF T = {} THEN 0
  ELSE LET t == CHOOSE x \in T : TRUE
       IN  (IF tf(d, t) > 0 THEN tf(d, t) * IdfMilli[df(t)] ELSE 0)
           + SumScore(d, T \ {t})

\* Score of document d for the query tokens: distinct tokens only.
Score(d, toks) == SumScore(d, {toks[k] : k \in 1..Len(toks)})

\* Sort by score descending, ties in collection order.
RECURSIVE SortByScore(_, _)
SortByScore(S, toks) ==
  IF S = {} THEN << >>
  ELSE LET best == CHOOSE d \in S : \A e \in S :
                      \/ Score(d, toks) > Score(e, toks)
                      \/ (Score(d, toks) = Score(e, toks) /\ d <= e)
       IN  <<[doc |-> best, score |-> Score(best, toks)]>>
           \o SortByScore(S \ {best}, toks)

\* TinyRAG.search(query, top_k): ranked (document, score) pairs.
search(query, top_k) ==
  LET toks == tokenize(query)
  IN  IF toks = << >> THEN << >>
      ELSE LET scored == {d \in DocIdx : Score(d, toks) > 0}
               ranked == SortByScore(scored, toks)
           IN  SubSeq(ranked, 1, Min(top_k, Len(ranked)))

\* `needle in haystack` on strings, as a contiguous run of words.
Contains(haystack, needle) ==
  \E k \in 0..Len(haystack) :
     /\ k + Len(needle) <= Len(haystack)
     /\ SubSeq(haystack, k + 1, k + Len(needle)) = needle

AllDocs == [d \in DocIdx |-> d]

\* DocumentStore.search_documents(query): keyword match in the content or
\* the title; the first three documents when nothing matches.
search_documents(query) ==
  LET query_lower == lower_text(query)
      Matches(d) == \/ Contains(lower_text(documents[d].text), query_lower)
                    \/ Contains(lower_text(documents[d].title), query_lower)
      relevant_docs == SelectSeq(AllDocs, Matches)
  IN  IF relevant_docs = << >>
      THEN SubSeq(AllDocs, 1, Min(3, Len(AllDocs)))
      ELSE relevant_docs

RECURSIVE SeqsUpTo(_, _)
SeqsUpTo(S, n) ==
  IF n = 0 THEN {<< >>}
  ELSE LET shorter == SeqsUpTo(S, n - 1)
       IN  shorter \cup {Append(s, w) : s \in shorter, w \in S}

Questions == SeqsUpTo(QueryWords, MaxQueryLen)


\* -------------------------------------------------------------- settings
\* Settings as load_settings builds them from the environment: each
\* optional variable is set or not, rag_top_k is a positive integer.
SettingsSet ==
  [ auth0_domain     : {None, "tenant.auth0.com"},
    auth0_audience   : {None, "https://rag-api"},
    allow_dev_auth   : BOOLEAN,
    fga_api_url      : {None, "https://api.fga.dev"},
    fga_store_id     : {None, "store1"},
    fga_bearer_token : {None, "pat"},
    rag_top_k        : 1..MaxTopK ]

\* Python truthiness of an optional string or of a Header object.
Truthy(v) == v \notin {None, ""}

\* -------------------------------------------------------- authentication
\* Values of the Authorization header of a request: absent, a non-bearer
\* scheme, or a bearer token of one of the kinds jwt handling tells apart.
BearerValues == {"Bearer valid", "Bearer nokid", "Bearer unknownkey",
                 "Bearer badsig", "Bearer nosub"}
AuthorizationValues == {None, "Basic abc"} \cup BearerValues
DevUsers == {"alice_manager", "bob_employee"}

HttpError(code, text) == [kind |-> "http", status |-> code, detail |-> text, subject |-> None]
Raised(what) == [kind |-> "raise", status |-> 500, detail |-> what, subject |-> None]
AuthOk(sub) == [kind |-> "ok", status |-> 200, detail |-> "", subject |-> sub]

\* get_auth_context(settings, authorization, x_dev_user); jwks_ok is the
\* outcome of the JWKS download.
get_auth_context(st, authorization, x_dev_user, jwks_ok) ==
  IF (~Truthy(st.auth0_domain) \/ ~Truthy(st.auth0_audience)) /\ st.allow_dev_auth
  THEN IF ~Truthy(x_dev_user)
       THEN HttpError(401, "Auth not configured. Provide X-Dev-User header")
       ELSE AuthOk(x_dev_user)
  ELSE IF ~Truthy(authorization)
       THEN HttpError(401, "Missing Bearer token")
  ELSE IF authorization = HeaderDefault
       THEN Raised("AttributeError: lower")   \* Header object has no .lower()
  ELSE IF authorization \notin BearerValues
       THEN HttpError(401, "Missing Bearer token")
  ELSE IF ~jwks_ok \/ ~Truthy(st.auth0_domain)
       THEN Raised("httpx error")             \* jwks_cache.get raises
  ELSE IF authorization = "Bearer nokid"
       THEN HttpError(401, "JWT missing kid")
  ELSE IF authorization = "Bearer unknownkey"
       THEN HttpError(401, "Unknown signing key")
  ELSE IF authorization = "Bearer badsig"
       THEN HttpError(401, "Invalid token")
  ELSE IF authorization = "Bearer nosub"
       THEN HttpError(401, "Token missing sub")
  ELSE AuthOk("auth0|abc123")

\* auth_dep(): the dependency FastAPI resolves for `ask`.  It takes no
\* parameters, so nothing of the request is injected, and it calls
\* get_auth_context(settings) with the two header parameters left at their
\* defaults, the Header(default=None) objects.
auth_dep(st, jwks_ok) == get_auth_context(st, HeaderDefault, HeaderDefault, jwks_ok)

\* --------------------------------------------------------- authorization
FGAObject(type, id) == [type |-> type, id |-> id]
UserOf(subject) == <<"user:", subject>>            \* f"user:{auth.subject}"

ContainsManager(user) == user[2] \in {"alice_manager"}   \* "manager" in user.lower()
ContainsPublic(id) == id \in {"doc_public_1", "doc_public_2", "doc_public_3"}

FGAConfigured(st) ==
  Truthy(st.fga_api_url) /\ Truthy(st.fga_store_id) /\ Truthy(st.fga_bearer_token)

\* Outcome of the POST to the store's /check endpoint: an error (connect
\* error, timeout, error status) or a JSON body with `allowed`.  The store
\* is remote: its answer for a pair may differ from one call to the next.
RemoteOutcomes(st) ==
  IF FGAConfigured(st) THEN {"unavailable", "allowed_true", "allowed_false"}
  ELSE {"not_called"}

Returned(b) == [raised |-> FALSE, value |-> b]
Raise == [raised |-> TRUE, value |-> FALSE]

\* fga_check(settings, user, relation, obj): returns a bool or raises.
fga_check(st, user, relation, obj, remote) ==
  IF ~FGAConfigured(st)
  THEN IF ContainsManager(user) THEN Returned(TRUE)
       ELSE Returned(ContainsPublic(obj.id))
  ELSE IF remote = "unavailable" THEN Raise   \* httpx error / raise_for_status
  ELSE Returned(remote = "allowed_true")      \* bool(data.get("allowed", False))

\* ----------------------------------------------------------------- state
VARIABLES
  settings,      \* Settings loaded by create_app
  pc,            \* position of the request in flight
  req,           \* the request: question and the headers it carries
  auth,          \* AuthContext.subject the dependency resolved
  hits,          \* ranked candidates (document, score)
  allowed_docs,  \* documents the gate let through, in check order
  blocked,       \* ids the gate blocked, in check order
  checks,        \* the fga_check calls issued so far, with their outcome
  response,      \* what the caller receives
  candidate_documents, \* answer_question: the documents the store returned
  earlier,       \* history: one decision an earlier request of `ask` obtained
  inflight,      \* concurrent requests of `ask`: the locals of each handler
  jwks_cache     \* the module-level JWKSCache of app/auth.py

\* What the single-request steps of `ask` and answer_question leave alone.
others == <<earlier, inflight, jwks_cache>>

vars == <<settings, pc, req, auth, hits, allowed_docs, blocked,
          checks, response, candidate_documents, others>>

NoEarlier == [user |-> <<"user:", None>>, id |-> None, allowed |-> FALSE]

\* JWKSCache.__init__: nothing cached.
EmptyJwksCache == [jwks |-> None, url |-> None]

NoRequest == [question |-> << >>, authorization |-> None, x_dev_user |-> None]
NoAnswer == [prefix |-> "", blocks |-> << >>]
NoResponse ==
  [status |-> 0, keys |-> {}, answer |-> NoAnswer, used_documents |-> << >>,
   blocked_documents |-> << >>, detail |-> ""]

\* Headers a request carries: (Authorization, X-Dev-User).
RequestHeaders ==
  { <<None, None>>, <<None, "bob_employee">>, <<None, "alice_manager">>,
    <<"Bearer valid", None>>, <<"Bearer badsig", None>> }

Terminal == {"COMPOSED", "EMPTY_AFTER_GATE", "UNAUTHENTICATED", "ERROR", "ANSWERED"}

\* Requests in flight at the same time, and the locals of a handler that
\* has not started.
Reqs == 1..MaxInflight
NewSlot ==
  [pc |-> "idle", question |-> << >>, auth |-> None, hits |-> << >>,
   allowed_docs |-> << >>, blocked |-> << >>, checks |-> << >>,
   response |-> NoResponse]

\* Settings(): the defaults of the class.
DefaultSettings ==
  [ auth0_domain |-> None, auth0_audience |-> None, allow_dev_auth |-> TRUE,
    fga_api_url |-> None, fga_store_id |-> None, fga_bearer_token |-> None,
    rag_top_k |-> 3 ]

\* The process serves either the FastAPI app of app/main.py, with the
\* settings of its environment, or the rag_system of app/rag.py, which
\* reads no settings.
Init ==
  /\ \/ pc = "idle" /\ settings \in SettingsSet
     \/ pc = "rag_idle" /\ settings = DefaultSettings
  /\ req = NoRequest
  /\ auth = None
  /\ hits = << >>
  /\ allowed_docs = << >>
  /\ blocked = << >>
  /\ checks = << >>
  /\ response = NoResponse
  /\ candidate_documents = << >>
  /\ earlier = NoEarlier
  /\ inflight = [r \in Reqs |-> NewSlot]
  /\ jwks_cache = EmptyJwksCache

\* A POST /ask arrives.
Request(question, headers) ==
  /\ pc = "idle"
  /\ pc' = "auth"
  /\ req' = [question |-> question, authorization |-> headers[1],
             x_dev_user |-> headers[2]]
  /\ UNCHANGED <<settings, auth, hits, allowed_docs, blocked,
                 checks, response, candidate_documents, others>>

\* What the caller gets for an HTTPException and for an uncaught exception.
HttpResponse(code, text) ==
  [NoResponse EXCEPT !.status = code, !.keys = {"detail"}, !.detail = text]
ServerError == HttpResponse(500, "Internal Server Error")

\* FastAPI resolves Depends(auth_dep) before the body of `ask` runs.
Authenticate(jwks_ok) ==
  /\ pc = "auth"
  /\ LET r == auth_dep(settings, jwks_ok)
     IN  \/ /\ r.kind = "ok"
            /\ pc' = "RECEIVED"
            /\ auth' = r.subject
            /\ UNCHANGED response
         \/ /\ r.kind = "http"
            /\ pc' = "UNAUTHENTICATED"
            /\ response' = HttpResponse(r.status, r.detail)
            /\ UNCHANGED auth
         \/ /\ r.kind = "raise"
            /\ pc' = "ERROR"
            /\ response' = ServerError
            /\ UNCHANGED auth
  /\ UNCHANGED <<settings, req, hits, allowed_docs, blocked, checks,
                 candidate_documents, others>>

\* Mutant of AskHits: one candidate more than top_k is asked for.
AskHitsOffByOne(question) == search(question, settings.rag_top_k + 1)

\* hits = rag.search(req.question, top_k=settings.rag_top_k)
AskHits(question) == search(question, settings.rag_top_k)

ask_search ==
  /\ pc = "RECEIVED"
  /\ hits' = AskHits(req.question)
  /\ allowed_docs' = << >>
  /\ blocked' = << >>
  /\ pc' = "RANKED"
  /\ UNCHANGED <<settings, req, auth, checks, response,
                 candidate_documents, others>>

\* Mutants of the loop body: the document is appended whatever `ok` is;
\* an allowed document is put in front; a denied id is not recorded.
GateAllowedAlways(ok, alloweds, doc) == Append(alloweds, doc)
GateAllowedPrepend(ok, alloweds, doc) == IF ok THEN <<doc>> \o alloweds ELSE alloweds
GateBlockedDrop(ok, blockeds, id) == blockeds

\* The two branches of the loop body on the value of `ok`:
\* allowed_docs.append(doc) and blocked.append(doc.id).
GateAllowed(ok, alloweds, doc) == IF ok THEN Append(alloweds, doc) ELSE alloweds
GateBlocked(ok, blockeds, id) == IF ok THEN blockeds ELSE Append(blockeds, id)

\* Mutant of AskCheck: the decision an earlier request obtained for the same
\* user and document is reused instead of asking again.
AskCheckCached(user, obj, remote) ==
  IF earlier.user = user /\ earlier.id = obj.id
  THEN Returned(earlier.allowed)
  ELSE fga_check(settings, user, "view", obj, remote)

\* ok = await fga_check(settings=settings, user=..., relation="view", obj=...)
AskCheck(user, obj, remote) == fga_check(settings, user, "view", obj, remote)

\* One iteration of `for doc, _score in hits`: await fga_check, then append
\* to allowed_docs or to blocked.  An exception of the check leaves the
\* handler: the request ends with a server error.
ask_fga_check ==
  /\ pc = "RANKED"
  /\ Len(checks) < Len(hits)
  /\ LET doc  == hits[Len(checks) + 1].doc
         user == UserOf(auth)
         obj  == FGAObject("document", documents[doc].id)
     IN  \E remote \in RemoteOutcomes(settings) :
           LET ok == AskCheck(user, obj, remote)
           IN  /\ checks' = Append(checks, [user |-> user, relation |-> "view",
                                            object |-> obj, remote |-> remote,
                                            result |-> ok])
               /\ IF ok.raised
                  THEN /\ pc' = "ERROR"
                       /\ response' = ServerError
                       /\ UNCHANGED <<allowed_docs, blocked>>
                  ELSE /\ allowed_docs' = GateAllowed(ok.value, allowed_docs, doc)
                       /\ blocked' = GateBlocked(ok.value, blocked, documents[doc].id)
                       /\ UNCHANGED <<pc, response>>
  /\ UNCHANGED <<settings, req, auth, hits, candidate_documents, others>>

\* The loop is over: every hit has been checked.
ask_gate ==
  /\ pc = "RANKED"
  /\ Len(checks) = Len(hits)
  /\ pc' = "GATED"
  /\ UNCHANGED <<settings, req, auth, hits, allowed_docs, blocked,
                 checks, response, candidate_documents, others>>

Block(d) == [id |-> documents[d].id, title |-> documents[d].title,
             text |-> documents[d].text]

\* "\n\n".join(f"[{d.id}] {d.title}\n{d.text}" for d in allowed_docs)
Context(alloweds) == [k \in 1..Len(alloweds) |-> Block(alloweds[k])]

IdsOf(ds) == [k \in 1..Len(ds) |-> documents[ds[k]].id]

\* raise HTTPException(status_code=403, detail=...)
Forbidden == HttpResponse(403, "No authorized documents matched your question.")

\* AskResponse(answer=..., used_documents=..., blocked_documents=blocked)
AskResponse(alloweds, blockeds) ==
  [status |-> 200,
   keys |-> {"answer", "used_documents", "blocked_documents"},
   answer |-> [prefix |-> "Here's what I found in the documents you're allowed to see:",
               blocks |-> Context(alloweds)],
   used_documents |-> IdsOf(alloweds),
   blocked_documents |-> blockeds,
   detail |-> ""]

\* 403 when nothing is allowed, the AskResponse otherwise.
ask_respond ==
  /\ pc = "GATED"
  /\ IF allowed_docs = << >>
     THEN /\ pc' = "EMPTY_AFTER_GATE"
          /\ response' = Forbidden
     ELSE /\ pc' = "COMPOSED"
          /\ response' = AskResponse(allowed_docs, blocked)
  /\ UNCHANGED <<settings, req, auth, hits, allowed_docs, blocked, checks,
                 candidate_documents, others>>

\* The response is sent; the request's locals are gone.
DoneReset ==
  /\ pc \in Terminal
  /\ pc' = IF pc = "ANSWERED" THEN "rag_idle" ELSE "idle"
  /\ req' = NoRequest
  /\ auth' = None
  /\ hits' = << >>
  /\ allowed_docs' = << >>
  /\ blocked' = << >>
  /\ checks' = << >>
  /\ response' = NoResponse
  /\ candidate_documents' = << >>
  /\ UNCHANGED settings

Done == DoneReset /\ UNCHANGED others

\* The decisions the request that ends obtained from its checks.
Decisions ==
  {[user |-> checks[k].user, id |-> checks[k].object.id,
    allowed |-> checks[k].result.value] :
      k \in {n \in DOMAIN checks : ~checks[n].result.raised}}

\* Done, with one decision of the request kept as history (or the one kept
\* before): nothing of the program holds it, it is what an observer of the
\* earlier request remembers.
DoneRemember ==
  /\ DoneReset
  /\ earlier' \in {earlier} \cup Decisions
  /\ UNCHANGED <<inflight, jwks_cache>>

\* ------------------------------------------- PrivacyAwareRAG (app/rag.py)
\* auth_client.can_user_access_document(user, doc) of an Authorizer that
\* denies the documents of `denied`.
can_user_access_document(user, doc, denied) == documents[doc].id \notin denied

\* The loop of answer_question over the first n candidates.
RECURSIVE AllowedUpTo(_, _, _, _)
AllowedUpTo(cands, user, denied, n) ==
  IF n = 0 THEN << >>
  ELSE GateAllowed(can_user_access_document(user, cands[n], denied),
                   AllowedUpTo(cands, user, denied, n - 1), cands[n])

RECURSIVE BlockedUpTo(_, _, _, _)
BlockedUpTo(cands, user, denied, n) ==
  IF n = 0 THEN << >>
  ELSE GateBlocked(can_user_access_document(user, cands[n], denied),
                   BlockedUpTo(cands, user, denied, n - 1),
                   documents[cands[n]].id)

\* f"- {doc.title}: {doc.content[:100]}..." (every content is shorter
\* than 100 characters)
AnswerPart(d) == [id |-> None, title |-> documents[d].title,
                  text |-> documents[d].text]

_generate_answer(question, ds) ==
  IF ds = << >>
  THEN [prefix |-> "I couldn't find any information you're authorized to access that answers your question.",
        blocks |-> << >>]
  ELSE [prefix |-> "Based on the documents I can access, here's what I found:",
        blocks |-> [k \in 1..Len(ds) |-> AnswerPart(ds[k])]]

\* rag_system.answer_question(user, question): synchronous, one step.
answer_question(user, question, denied) ==
  /\ pc = "rag_idle"
  /\ LET cands    == search_documents(question)
         alloweds == AllowedUpTo(cands, user, denied, Len(cands))
         blockeds == BlockedUpTo(cands, user, denied, Len(cands))
     IN  /\ candidate_documents' = cands
         /\ allowed_docs' = alloweds
         /\ blocked' = blockeds
         /\ checks' = [k \in 1..Len(cands) |->
                         [user |-> UserOf(user), relation |-> "view",
                          object |-> FGAObject("document", documents[cands[k]].id),
                          remote |-> "local",
                          result |-> Returned(can_user_access_document(user, cands[k], denied))]]
         /\ response' =
              [status |-> 0,
               keys |-> {"answer", "retrieved_documents", "blocked_documents"},
               answer |-> _generate_answer(question, alloweds),
               used_documents |-> IdsOf(alloweds),
               blocked_documents |-> blockeds,
               detail |-> ""]
  /\ pc' = "ANSWERED"
  /\ req' = [NoRequest EXCEPT !.question = question]
  /\ auth' = user
  /\ UNCHANGED <<settings, hits, others>>

\* ------------------------------------------------------------------ spec
Next ==
  \/ \E q \in Questions, h \in RequestHeaders : Request(q, h)
  \/ \E j \in BOOLEAN : Authenticate(j)
  \/ ask_search
  \/ ask_fga_check
  \/ ask_gate
  \/ ask_respond
  \/ Done
  \/ \E u \in DevUsers, q \in Questions, denied \in SUBSET DocIds :
        answer_question(u, q, denied)

Spec == Init /\ [][Next]_vars

\* `ask` serving one request after the other, with the history of an
\* earlier decision.
\* The three FGA variables are set together or not at all.
FGAAllOrNone(st) ==
  \/ FGAConfigured(st)
  \/ ~Truthy(st.fga_api_url) /\ ~Truthy(st.fga_store_id) /\ ~Truthy(st.fga_bearer_token)

InitRepeat == Init /\ pc = "idle" /\ FGAAllOrNone(settings)

NextRepeat ==
  \/ \E q \in Questions, h \in RequestHeaders : Request(q, h)
  \/ \E j \in BOOLEAN : Authenticate(j)
  \/ ask_search
  \/ ask_fga_check
  \/ ask_gate
  \/ ask_respond
  \/ DoneRemember

SpecRepeat == InitRepeat /\ [][NextRepeat]_vars

TypeOK ==
  /\ settings \in SettingsSet \cup {DefaultSettings}
  /\ pc \in {"idle", "rag_idle", "auth", "RECEIVED", "RANKED", "GATED"} \cup Terminal

\* ------------------------------------------------------------ properties
SeqSet(s) == {s[k] : k \in DOMAIN s}

\* The candidates of the request, as documents, whichever pipeline ran.
Candidates ==
  IF pc = "ANSWERED" THEN candidate_documents
  ELSE [k \in 1..Len(hits) |-> hits[k].doc]

CandidateIds == SeqSet(IdsOf(Candidates))
UsedIds == SeqSet(IdsOf(allowed_docs))
BlockedIds == SeqSet(blocked)

\* Ids whose authorization decision in this request was `false`.
DeniedIds ==
  {checks[k].object.id : k \in {n \in DOMAIN checks :
       ~checks[n].result.raised /\ ~checks[n].result.value}}

\* Documents whose text is part of the answer the caller receives.
AnswerDocs ==
  {d \in DocIdx : \E k \in DOMAIN response.answer.blocks :
      /\ response.answer.blocks[k].text = documents[d].text
      /\ response.answer.blocks[k].title = documents[d].title}

AnswerIds == {documents[d].id : d \in AnswerDocs}

GateOver == pc \in {"GATED", "COMPOSED", "EMPTY_AFTER_GATE", "ANSWERED"}

\* C1: a candidate whose authorization decision is false never is among the
\* allowed documents, never contributes its text to the answer and never
\* has its id in the used-documents list.
C1_DeniedNeverUsed ==
  \A id \in DeniedIds :
     /\ id \notin UsedIds
     /\ id \notin SeqSet(response.used_documents)
     /\ id \notin AnswerIds

\* An answer was composed from some candidates while another one was denied.
C1_Witness ==
  /\ pc = "COMPOSED"
  /\ DeniedIds # {}
  /\ AnswerIds # {}

\* C2: once the gate has processed the candidates, used and blocked ids are
\* disjoint and together are exactly the candidate ids.
C2_Partition ==
  GateOver =>
     /\ UsedIds \cap BlockedIds = {}
     /\ UsedIds \cup BlockedIds = CandidateIds

\* The gate split at least three candidates into both lists.
C2_Witness ==
  /\ pc = "GATED"
  /\ allowed_docs # << >>
  /\ blocked # << >>
  /\ Len(hits) >= 3

\* C3 (as claimed): with the FGA API URL, store id or bearer token not set,
\* no check of `ask` yields "allowed" and no candidate enters the allowed
\* set.  `ask` has no explicitly selected demo policy: the fallback is the
\* branch fga_check takes whenever one of the three is missing.
C3_MisconfiguredDenies ==
  (pc \notin {"ANSWERED", "rag_idle"} /\ ~FGAConfigured(settings)) =>
     /\ \A k \in DOMAIN checks : ~checks[k].result.value
     /\ allowed_docs = << >>

\* C4 (as claimed): when a check of the request found the Authorizer
\* unavailable, the request ends with every candidate id in the blocked
\* list, none in the used list and no candidate text in an answer.
C4_UnavailableBlocksAll ==
  (pc \in Terminal /\ \E k \in DOMAIN checks : checks[k].remote = "unavailable") =>
     /\ CandidateIds \subseteq BlockedIds
     /\ response.used_documents = << >>
     /\ AnswerIds = {}

\* C5 (as claimed): a request of `ask` that ends with no authorized content,
\* every candidate blocked, reports a client-error-class result that
\* includes the blocked ids and none of the blocked documents' text.
C5_EmptyReportsBlocked ==
  (pc = "EMPTY_AFTER_GATE" /\ blocked # << >>) =>
     /\ response.status \in 400..499
     /\ "blocked_documents" \in response.keys
     /\ response.blocked_documents = blocked
     /\ AnswerIds = {}

\* The question matches no document: for the Ranker no token of it occurs
\* in a document, for the DocumentStore no title or content contains it.
NoTokenMatch(question) ==
  \A d \in DocIdx : Score(d, tokenize(question)) = 0
NoKeywordMatch(question) ==
  \A d \in DocIdx :
     /\ ~Contains(lower_text(documents[d].text), lower_text(question))
     /\ ~Contains(lower_text(documents[d].title), lower_text(question))

\* C6 (as claimed): a query that matches zero documents yields an empty
\* candidate sequence, no authorization check and no document in the answer.
C6_NoMatchNoCandidates ==
  /\ (pc \in {"RANKED", "GATED", "COMPOSED", "EMPTY_AFTER_GATE"}
        /\ NoTokenMatch(req.question))
       => (hits = << >> /\ checks = << >> /\ AnswerIds = {})
  /\ (pc = "ANSWERED" /\ NoKeywordMatch(req.question))
       => (candidate_documents = << >> /\ checks = << >> /\ AnswerIds = {})

\* The credentials the request carries are accepted by get_auth_context.
CredentialsAccepted ==
  get_auth_context(settings, req.authorization, req.x_dev_user, TRUE).kind = "ok"

PipelineStarted == pc \in {"RECEIVED", "RANKED", "GATED", "COMPOSED", "EMPTY_AFTER_GATE"}

\* C7 (as claimed): for a request of `ask` whose credentials are missing or
\* invalid the pipeline never starts: no ranking, no authorization check and
\* no answer composition is performed for it.
C7_RejectedBeforePipeline ==
  (pc \notin {"idle", "rag_idle", "ANSWERED"} /\ ~CredentialsAccepted) =>
     /\ ~PipelineStarted
     /\ hits = << >>
     /\ checks = << >>

InOrderOf(sub, full) ==
  /\ SeqSet(sub) \subseteq SeqSet(full)
  /\ \A i, j \in DOMAIN sub : i < j =>
        \E a, b \in DOMAIN full : a < b /\ full[a] = sub[i] /\ full[b] = sub[j]

\* C9: used and blocked documents keep the Ranker's order, and the answer
\* lists the allowed documents in that order.
C9_RankOrderKept ==
  /\ InOrderOf(allowed_docs, Candidates)
  /\ InOrderOf(blocked, IdsOf(Candidates))
  /\ pc \in {"COMPOSED", "ANSWERED"} =>
        /\ response.used_documents = IdsOf(allowed_docs)
        /\ response.blocked_documents = blocked
        /\ Len(response.answer.blocks) = Len(allowed_docs)
        /\ \A k \in DOMAIN allowed_docs :
              response.answer.blocks[k].text = documents[allowed_docs[k]].text

\* An answer over two documents ranked against collection order, with two
\* documents blocked.
C9_Witness ==
  /\ pc = "COMPOSED"
  /\ \E i, j \in DOMAIN allowed_docs : i < j /\ allowed_docs[i] > allowed_docs[j]
  /\ Len(blocked) >= 1

\* C10 (as claimed): an authenticated request moves RECEIVED, RANKED, GATED
\* in that order and ends in COMPOSED or EMPTY_AFTER_GATE; GATED is entered
\* only with a decision for every candidate, EMPTY_AFTER_GATE exactly when
\* nothing is allowed, and no step goes back.
C10_Step ==
  /\ pc = "RECEIVED" => pc' = "RANKED"
  /\ pc = "RANKED" =>
        \/ pc' = "RANKED"
        \/ pc' = "GATED" /\ Len(checks) = Len(hits)
  /\ pc = "GATED" =>
        \/ pc' = "EMPTY_AFTER_GATE" /\ allowed_docs = << >>
        \/ pc' = "COMPOSED" /\ allowed_docs # << >>
  /\ pc \in {"COMPOSED", "EMPTY_AFTER_GATE"} => pc' = "idle"

C10_Lifecycle == [][C10_Step]_vars

\* ---------------------------------------------------- concurrent requests
\* Each request of `ask` is a coroutine with its own locals; the event loop
\* runs one of them up to its next await.  They share the settings, the
\* documents and the JWKS cache.
single == <<pc, req, auth, hits, allowed_docs, blocked, checks, response,
            candidate_documents, earlier>>

ConcQuestions == {<<"holiday">>, <<"holiday", "Salary">>, <<"zzz">>}

\* The Auth0 domain and audience are set together or not at all.
Auth0AllOrNone(st) == Truthy(st.auth0_domain) <=> Truthy(st.auth0_audience)

\* Settings of the concurrent runs: one or two candidates per request.
ConcSettings ==
  {st \in SettingsSet :
      FGAAllOrNone(st) /\ Auth0AllOrNone(st) /\ st.rag_top_k \in {1, 2}}

InitConc == Init /\ pc = "idle" /\ settings \in ConcSettings

\* get_auth_context reaches `jwks = await jwks_cache.get(jwks_url)`: the dev
\* branch is not taken and the Authorization value is a bearer string.
JwksReached(st, authorization) ==
  /\ ~((~Truthy(st.auth0_domain) \/ ~Truthy(st.auth0_audience)) /\ st.allow_dev_auth)
  /\ Truthy(authorization)
  /\ authorization \in BearerValues

\* JWKSCache.get(jwks_url): the cached key set for the same URL, or a
\* download that is stored when it succeeds.
JWKSCache_get(cache, jwks_url, fetch_ok) ==
  IF cache.jwks # None /\ cache.url = jwks_url
  THEN [cache |-> cache, ok |-> TRUE]
  ELSE IF fetch_ok
       THEN [cache |-> [jwks |-> "keys", url |-> jwks_url], ok |-> TRUE]
       ELSE [cache |-> cache, ok |-> FALSE]

Set(r, slot) == inflight' = [inflight EXCEPT ![r] = slot]

\* Request r arrives.
Receive(r, question) ==
  /\ inflight[r].pc = "idle"
  /\ Set(r, [inflight[r] EXCEPT !.pc = "auth", !.question = question])
  /\ UNCHANGED <<settings, single, jwks_cache>>

\* Depends(auth_dep) of request r, with the JWKS cache it may go through.
Depends(r, fetch_ok) ==
  /\ inflight[r].pc = "auth"
  /\ LET got == IF JwksReached(settings, HeaderDefault)
                THEN JWKSCache_get(jwks_cache, settings.auth0_domain, fetch_ok)
                ELSE [cache |-> jwks_cache, ok |-> fetch_ok]
         a   == auth_dep(settings, got.ok)
     IN  /\ jwks_cache' = got.cache
         /\ Set(r, CASE a.kind = "ok" ->
                          [inflight[r] EXCEPT !.pc = "RECEIVED", !.auth = a.subject]
                     [] a.kind = "http" ->
                          [inflight[r] EXCEPT !.pc = "UNAUTHENTICATED",
                              !.response = HttpResponse(a.status, a.detail)]
                     [] OTHER ->
                          [inflight[r] EXCEPT !.pc = "ERROR", !.response = ServerError])
  /\ UNCHANGED <<settings, single>>

\* Mutant of InitialAllowed: the list is one object shared by the handlers,
\* so a request starts with what another request has appended.
InitialAllowedShared(r) ==
  IF \E o \in Reqs \ {r} : inflight[o].allowed_docs # << >>
  THEN inflight[CHOOSE o \in Reqs \ {r} : inflight[o].allowed_docs # << >>].allowed_docs
  ELSE << >>

\* allowed_docs = []: a new list for every call of the handler.
InitialAllowed(r) == << >>

Search(r) ==
  /\ inflight[r].pc = "RECEIVED"
  /\ Set(r, [inflight[r] EXCEPT !.pc = "RANKED",
                !.hits = AskHits(inflight[r].question),
                !.allowed_docs = InitialAllowed(r),
                !.blocked = << >>])
  /\ UNCHANGED <<settings, single, jwks_cache>>

\* One iteration of the loop of request r, up to and including its await.
Check(r) ==
  /\ inflight[r].pc = "RANKED"
  /\ Len(inflight[r].checks) < Len(inflight[r].hits)
  /\ LET me   == inflight[r]
         doc  == me.hits[Len(me.checks) + 1].doc
         user == UserOf(me.auth)
         obj  == FGAObject("document", documents[doc].id)
     IN  \E remote \in RemoteOutcomes(settings) :
           LET ok == AskCheck(user, obj, remote)
               asked == Append(me.checks, [user |-> user, relation |-> "view",
                                           object |-> obj, remote |-> remote,
                                           result |-> ok])
           IN  Set(r, IF ok.raised
                      THEN [me EXCEPT !.pc = "ERROR", !.checks = asked,
                                      !.response = ServerError]
                      ELSE [me EXCEPT !.checks = asked,
                              !.allowed_docs = GateAllowed(ok.value, me.allowed_docs, doc),
                              !.blocked = GateBlocked(ok.value, me.blocked, documents[doc].id)])
  /\ UNCHANGED <<settings, single, jwks_cache>>

\* The loop of request r is over; 403 or the AskResponse.
Respond(r) ==
  /\ inflight[r].pc = "RANKED"
  /\ Len(inflight[r].checks) = Len(inflight[r].hits)
  /\ Set(r, IF inflight[r].allowed_docs = << >>
            THEN [inflight[r] EXCEPT !.pc = "EMPTY_AFTER_GATE", !.response = Forbidden]
            ELSE [inflight[r] EXCEPT !.pc = "COMPOSED",
                    !.response = AskResponse(inflight[r].allowed_docs,
                                             inflight[r].blocked)])
  /\ UNCHANGED <<settings, single, jwks_cache>>

NextConc ==
  \/ \E r \in Reqs, q \in ConcQuestions : Receive(r, q)
  \/ \E r \in Reqs, j \in BOOLEAN : Depends(r, j)
  \/ \E r \in Reqs : Search(r)
  \/ \E r \in Reqs : Check(r)
  \/ \E r \in Reqs : Respond(r)

SpecConc == InitConc /\ [][NextConc]_vars

\* C11: a decision is produced once per candidate per request and none is
\* reused: whatever an earlier request obtained, each check's decision is
\* the Authorizer's answer at the time of this request, and the used and
\* blocked lists follow it.
C11_NoReuseAcrossRequests ==
  /\ Len(checks) <= Len(hits)
  /\ \A i, j \in DOMAIN checks : i # j => checks[i].object.id # checks[j].object.id
  /\ \A k \in DOMAIN checks :
        LET id == checks[k].object.id
        IN  /\ checks[k].remote = "allowed_true" =>
                 /\ checks[k].result.value
                 /\ id \in UsedIds /\ id \notin BlockedIds
                 /\ pc = "COMPOSED" =>
                       /\ id \in SeqSet(response.used_documents)
                       /\ id \notin SeqSet(response.blocked_documents)
            /\ checks[k].remote = "allowed_false" =>
                 /\ ~checks[k].result.value
                 /\ id \in BlockedIds /\ id \notin UsedIds
                 /\ pc = "COMPOSED" =>
                       /\ id \in SeqSet(response.blocked_documents)
                       /\ id \notin SeqSet(response.used_documents)

\* A later request answered while the Authorizer's answer for a pair had
\* changed, in either direction, since the earlier request.
C11_Witness ==
  /\ pc = "COMPOSED"
  /\ \E k \in DOMAIN checks :
        /\ checks[k].user = earlier.user
        /\ checks[k].object.id = earlier.id
        /\ earlier.allowed
        /\ checks[k].remote = "allowed_false"
        /\ earlier.id \in SeqSet(response.blocked_documents)

\* The handler of `ask` run alone, start to end, on a question and on the
\* Authorizer's answers to its checks, in order.
RECURSIVE AloneGate(_, _, _, _)
AloneGate(hs, user, answers, n) ==
  IF n = 0 THEN [raised |-> FALSE, allowed_docs |-> << >>, blocked |-> << >>]
  ELSE LET before == AloneGate(hs, user, answers, n - 1)
           doc == hs[n].doc
           ok  == AskCheck(user, FGAObject("document", documents[doc].id), answers[n])
       IN  IF before.raised THEN before
           ELSE IF ok.raised THEN [before EXCEPT !.raised = TRUE]
           ELSE [raised |-> FALSE,
                 allowed_docs |-> GateAllowed(ok.value, before.allowed_docs, doc),
                 blocked |-> GateBlocked(ok.value, before.blocked, documents[doc].id)]

AloneOutcome(question, answers) ==
  LET a == auth_dep(settings, TRUE)
  IN  IF a.kind = "http"
      THEN [auth |-> None, allowed_docs |-> << >>, blocked |-> << >>,
            response |-> HttpResponse(a.status, a.detail)]
      ELSE IF a.kind = "raise"
      THEN [auth |-> None, allowed_docs |-> << >>, blocked |-> << >>,
            response |-> ServerError]
      ELSE LET hs == AskHits(question)
               g  == AloneGate(hs, UserOf(a.subject), answers,
                               Min(Len(answers), Len(hs)))
           IN  [auth |-> a.subject, allowed_docs |-> g.allowed_docs,
                blocked |-> g.blocked,
                response |-> IF g.raised THEN ServerError
                             ELSE IF g.allowed_docs = << >> THEN Forbidden
                             ELSE AskResponse(g.allowed_docs, g.blocked)]

Answers(r) == [k \in DOMAIN inflight[r].checks |-> inflight[r].checks[k].remote]

====
